---- MODULE Spec2Model ----
(***************************************************************************)
(* Model of lytest/command_line.py: the dynamic test loader, the command   *)
(* handlers (store, run, diff, git-diff, git-config) and the state they    *)
(* leave behind.  File names, attribute names and command-line tokens are  *)
(* sequences of one-character strings so that basename, splitext, lower,   *)
(* startswith and endswith are computed rather than assumed.               *)
(***************************************************************************)
EXTENDS Integers, Sequences, FiniteSets, TLC

VARIABLES
    _loaded_modules, \* dict: module name -> module object        (line 12)
    execCount,       \* per source file: exec_module calls made by this process
    gitconfig,       \* per scope: git configuration keys set so far
    attributes,      \* per scope: lines of the git attributes file
    runs,            \* per scope: cm_gitconfig runs that completed normally
    pc,              \* "ready" before a handler runs, "done" after it
    cmd,             \* the handler that ran
    request,         \* its argument tokens
    outcome,         \* how it ended: normal return or the exception raised
    output,          \* what it printed, in order
    calls,           \* the collaborator calls it made, in order
    value            \* the attribute a loader call returned

vars == <<_loaded_modules, execCount, gitconfig, attributes, runs,
          pc, cmd, request, outcome, output, calls, value>>

---------------------------------------------------------------------------
(* Bounds *)

\* exec_module calls one process may make
MaxExec == 2

\* cm_gitconfig runs that complete normally, over both scopes
MaxRuns == 2

---------------------------------------------------------------------------
(* Text *)

Max(S) == CHOOSE x \in S : \A y \in S : y <= x

UpperToLower ==
    ("A" :> "a") @@ ("B" :> "b") @@ ("C" :> "c") @@ ("D" :> "d") @@
    ("E" :> "e") @@ ("F" :> "f") @@ ("G" :> "g") @@ ("H" :> "h") @@
    ("I" :> "i") @@ ("J" :> "j") @@ ("K" :> "k") @@ ("L" :> "l") @@
    ("M" :> "m") @@ ("N" :> "n") @@ ("O" :> "o") @@ ("P" :> "p") @@
    ("Q" :> "q") @@ ("R" :> "r") @@ ("S" :> "s") @@ ("T" :> "t") @@
    ("U" :> "u") @@ ("V" :> "v") @@ ("W" :> "w") @@ ("X" :> "x") @@
    ("Y" :> "y") @@ ("Z" :> "z")

\* str.lower()
lower(s) ==
    [i \in 1..Len(s) |-> IF s[i] \in DOMAIN UpperToLower
                         THEN UpperToLower[s[i]] ELSE s[i]]

\* str.rfind(c), 1-based; 0 when c does not occur
rfind(s, c) ==
    LET I == {i \in 1..Len(s) : s[i] = c}
    IN  IF I = {} THEN 0 ELSE Max(I)

startswith(s, pre) ==
    Len(pre) <= Len(s) /\ SubSeq(s, 1, Len(pre)) = pre

endswith(s, suf) ==
    Len(suf) <= Len(s) /\ SubSeq(s, Len(s) - Len(suf) + 1, Len(s)) = suf

\* os.path.basename
basename(p) == SubSeq(p, rfind(p, "/") + 1, Len(p))

\* os.path.splitext: <<root, ext>>; the extension starts at the last dot of
\* the last path component, leading dots of that component not counted
splitext(p) ==
    LET sepIndex == rfind(p, "/")
        dotIndex == rfind(p, ".")
    IN  IF /\ dotIndex > sepIndex
           /\ \E i \in (sepIndex + 1)..(dotIndex - 1) : p[i] # "."
        THEN <<SubSeq(p, 1, dotIndex - 1), SubSeq(p, dotIndex, Len(p))>>
        ELSE <<p, <<>>>>

DigitVal ==
    ("0" :> 0) @@ ("1" :> 1) @@ ("2" :> 2) @@ ("3" :> 3) @@ ("4" :> 4) @@
    ("5" :> 5) @@ ("6" :> 6) @@ ("7" :> 7) @@ ("8" :> 8) @@ ("9" :> 9)

IsInt(s) == Len(s) > 0 /\ \A i \in 1..Len(s) : s[i] \in DOMAIN DigitVal

RECURSIVE int(_)
\* int(token) for a token of decimal digits
int(s) ==
    IF Len(s) = 0 THEN 0
    ELSE 10 * int(SubSeq(s, 1, Len(s) - 1)) + DigitVal[s[Len(s)]]

---------------------------------------------------------------------------
(* The files and names the commands are run on *)

TestA   == <<"a", "/", "t", ".", "p", "y">>
TestB   == <<"b", "/", "t", ".", "p", "y">>
LyGds   == <<"a", ".", "g", "d", "s">>
LyGDS   == <<"b", ".", "G", "D", "S">>
LyOas   == <<"c", ".", "o", "a", "s">>
LyPcb   == <<"p", ".", "k", "i", "c", "a", "d", "_", "p", "c", "b">>
LyTxt   == <<"n", ".", "t", "x", "t">>
LyGone  == <<"z", ".", "g", "d", "s">>
DevNull == <<"/", "d", "e", "v", "/", "n", "u", "l", "l">>

\* files present on disk (LyGone is not)
Existing == {TestA, TestB, LyGds, LyGDS, LyOas, LyPcb, LyTxt, DevNull}

TestPrefix == <<"t", "e", "s", "t", "_">>
TestSuffix == <<"_", "t", "e", "s", "t">>

Foo     == <<"f", "o", "o">>
Bar     == <<"b", "a", "r">>
TestFoo == <<"t", "e", "s", "t", "_", "f", "o", "o">>
FooTest == <<"f", "o", "o", "_", "t", "e", "s", "t">>
TestBar == <<"t", "e", "s", "t", "_", "b", "a", "r">>

\* the names each source file binds at module level when it executes
FileDefs(file) ==
    IF file = TestA THEN {Foo, TestFoo, FooTest}
    ELSE IF file = TestB THEN {FooTest, TestPrefix \o TestBar}
    ELSE {}

TestFiles == {TestA, TestB, LyGds, LyGone}
TestNames == {Foo, Bar, TestFoo, FooTest, TestBar}

\* how executing a source file can end: normally, or with an exception
\* (class Exception) raised by the file's own code
ExecOutcomes == {"ok", "AttributeError", "RuntimeError"}

---------------------------------------------------------------------------
(* Results *)

Exc(type, msg, args) == [type |-> type, msg |-> msg, args |-> args]

Returned == Exc("return", "", <<>>)

NoOutcome == Exc("none", "", <<>>)

\* argparse error: usage message and SystemExit(2)
ParseError == Exc("SystemExit", "usage", <<>>)

Line(msg, args) == [msg |-> msg, args |-> args]

\* a collaborator call: what was called, on which names, with which number
\* (tolerance, viewer mode, execution number) and how it ended
Call(fn, files, num, result) ==
    [fn |-> fn, files |-> files, num |-> num, verbose |-> FALSE,
     result |-> result]

NoValue == [file |-> <<>>, run |-> 0, attr |-> <<>>]

\* argparse.FileType("r"): the file is opened for reading while parsing
FileTypeR(name) == name \in Existing

---------------------------------------------------------------------------
(* Dynamic test loader *)

\* importlib.util.spec_from_file_location returns a spec only for a file
\* whose suffix has a loader; otherwise None
HasLoader(filename) ==
    \/ endswith(filename, <<".", "p", "y">>)
    \/ endswith(filename, <<".", "p", "y", "c">>)

modulename(filename) == splitext(basename(filename))[1]

NoneTypeError ==
    Exc("AttributeError", "'NoneType' object has no attribute 'loader'", <<>>)

\* getattr(the_module, attr)
getattr(mods, name, attr, executed) ==
    LET the_module == mods[name]
    IN  IF attr \in FileDefs(the_module.file)
        THEN [mods |-> mods, executed |-> executed, raised |-> Returned,
              value |-> [file |-> the_module.file, run |-> the_module.run,
                         attr |-> attr]]
        ELSE [mods |-> mods, executed |-> executed,
              raised |-> Exc("AttributeError", "module has no attribute", <<attr>>),
              value |-> NoValue]

\* variant: the loader never finds the module in the cache
IsCached_Never(name, mods) == FALSE

\* whether the loader takes the module from the cache
IsCached(name, mods) == name \in DOMAIN mods

\* load_attribute_fromfile(filename, attr) on cache mods; cnt counts the
\* executions made so far and eo is how an execution, if one happens, ends
load_attribute_fromfile(filename, attr, mods, cnt, eo) ==
    LET name == modulename(filename)
    IN  IF ~IsCached(name, mods)
        THEN IF ~HasLoader(filename)
             THEN [mods |-> mods, executed |-> <<>>, raised |-> NoneTypeError,
                   value |-> NoValue]
             ELSE IF eo # "ok"
             THEN [mods |-> mods, executed |-> <<filename>>,
                   raised |-> Exc("ImportError", "Error loading", <<filename>>),
                   value |-> NoValue]
             ELSE getattr((name :> [file |-> filename,
                                    run |-> cnt[filename] + 1]) @@ mods,
                          name, attr, <<filename>>)
        ELSE getattr(mods, name, attr, <<>>)

\* the exec_module calls a load made, as collaborator calls
ExecCalls(ld, cnt, eo) ==
    [i \in 1..Len(ld.executed) |->
        Call("exec_module", <<ld.executed[i]>>, cnt[ld.executed[i]] + 1, eo)]

\* the execution counts after a load
Counted(ld, cnt) ==
    IF ld.executed = <<>> THEN cnt
    ELSE [cnt EXCEPT ![ld.executed[1]] = @ + 1]

Res(mods, cnt, out, printed, made, val) ==
    [mods |-> mods, cnt |-> cnt, outcome |-> out, output |-> printed,
     calls |-> made, value |-> val]

---------------------------------------------------------------------------
(* store and run *)

\* run_parser / store_parser: two positionals, the first opened for reading
ParseTest(args) == Len(args) = 2 /\ FileTypeR(args[1])

\* cm_store_ref(args); so is how store_reference ends
cm_store_ref(args, mods, cnt, eo, so) ==
    IF ~ParseTest(args)
    THEN Res(mods, cnt, ParseError, <<>>, <<>>, NoValue)
    ELSE
    LET ld   == load_attribute_fromfile(args[1], args[2], mods, cnt, eo)
        made == ExecCalls(ld, cnt, eo)
        cnt2 == Counted(ld, cnt)
        sr   == Call("store_reference", <<ld.value.file, ld.value.attr>>,
                     ld.value.run, so)
    IN  IF ld.raised # Returned
        THEN Res(ld.mods, cnt2, ld.raised, <<>>, made, NoValue)
        ELSE IF so # "return"
        THEN Res(ld.mods, cnt2, Exc("CollaboratorError", "store_reference", <<>>),
                 <<>>, made \o <<sr>>, NoValue)
        ELSE Res(ld.mods, cnt2, Returned, <<Line("Success", <<>>)>>,
                 made \o <<sr>>, NoValue)

\* variant: the fallback search tries <name>_test first
Candidates_Swapped(func_name) == <<func_name \o TestSuffix, TestPrefix \o func_name>>

\* the names the fallback search tries, in order
Candidates(func_name) == <<TestPrefix \o func_name, func_name \o TestSuffix>>

\* whether the name is looked up as given, without the fallback search
IsTestShaped(func_name) ==
    startswith(func_name, TestPrefix) \/ endswith(func_name, TestSuffix)

NoPytestable ==
    Exc("AttributeError", "No pytest-able version of this attribute was found", <<>>)

\* variant: any exception of a load lets the search go on
IsRecoverable_Any(raised) == TRUE

\* which load failures let the search go on to the next candidate
IsRecoverable(raised) == raised.type = "AttributeError"

RECURSIVE SearchLoop(_, _, _, _, _, _)
\* the for/else loop of cm_xor_test over the candidate names
SearchLoop(file, cands, mods, cnt, eo, made) ==
    IF cands = <<>>
    THEN [raised |-> NoPytestable, func_name |-> <<>>, mods |-> mods,
          cnt |-> cnt, calls |-> made]
    ELSE
    LET ld    == load_attribute_fromfile(file, Head(cands), mods, cnt, eo)
        made2 == made \o ExecCalls(ld, cnt, eo)
        cnt2  == Counted(ld, cnt)
    IN  IF ld.raised = Returned
        THEN [raised |-> Returned, func_name |-> Head(cands), mods |-> ld.mods,
              cnt |-> cnt2, calls |-> made2]
        ELSE IF IsRecoverable(ld.raised)
        THEN SearchLoop(file, Tail(cands), ld.mods, cnt2, eo, made2)
        ELSE [raised |-> ld.raised, func_name |-> <<>>, mods |-> ld.mods,
              cnt |-> cnt2, calls |-> made2]

\* the call of the resolved test function
Invoke(val, co) == <<Call("call", <<val.file, val.attr>>, val.run, co)>>

\* cm_xor_test(args); co is how the test callable ends
cm_xor_test(args, mods, cnt, eo, co) ==
    IF ~ParseTest(args)
    THEN Res(mods, cnt, ParseError, <<>>, <<>>, NoValue)
    ELSE
    LET file == args[1]
        sl   == IF IsTestShaped(args[2])
                THEN [raised |-> Returned, func_name |-> args[2], mods |-> mods,
                      cnt |-> cnt, calls |-> <<>>]
                ELSE SearchLoop(file, Candidates(args[2]), mods, cnt, eo, <<>>)
    IN  IF sl.raised # Returned
        THEN Res(sl.mods, sl.cnt, sl.raised, <<>>, sl.calls, NoValue)
        ELSE
        LET ld   == load_attribute_fromfile(file, sl.func_name, sl.mods, sl.cnt, eo)
            made == sl.calls \o ExecCalls(ld, sl.cnt, eo)
            cnt2 == Counted(ld, sl.cnt)
        IN  IF ld.raised # Returned
            THEN Res(ld.mods, cnt2, ld.raised, <<>>, made, NoValue)
            ELSE IF co # "return"
            THEN Res(ld.mods, cnt2, Exc("TestError", "raised by the test", <<>>),
                     <<>>, made \o Invoke(ld.value, co), NoValue)
            ELSE Res(ld.mods, cnt2, Returned, <<Line("Success", <<>>)>>,
                     made \o Invoke(ld.value, co), NoValue)

\* a direct call of the loader, as the handlers and tests make it
LoaderCall(args, mods, cnt, eo) ==
    LET ld == load_attribute_fromfile(args[1], args[2], mods, cnt, eo)
    IN  Res(ld.mods, Counted(ld, cnt), ld.raised, <<>>, ExecCalls(ld, cnt, eo), ld.value)

---------------------------------------------------------------------------
(* diff *)

DiffTolerances == {<<>>, <<<<"1", "2">>>>, <<<<"x">>>>}

XorOutcomes == {"return", "GeometryDifference", "RuntimeError"}

\* the extensions cm_diff accepts
DiffExts ==
    {<<".", "g", "d", "s">>, <<".", "o", "a", "s">>,
     <<".", "k", "i", "c", "a", "d", "_", "p", "c", "b">>}

Unrecognized(name) == Exc("ValueError", "Unrecognized layout format", <<name>>)

\* variant: the extension is compared as written, without lower()
DiffAccepts_CaseSensitive(name) == splitext(name)[2] \in DiffExts

\* the extension test of cm_diff
DiffAccepts(name) == lower(splitext(name)[2]) \in DiffExts

RECURSIVE DiffLoop(_)
\* the validation loop of cm_diff: the first exception it raises, if any
DiffLoop(files) ==
    IF files = <<>> THEN Returned
    ELSE IF ~DiffAccepts(Head(files)) THEN Unrecognized(Head(files))
    ELSE DiffLoop(Tail(files))

\* filebased_parser: lyfile1 lyfile2 [tolerance]
ParseDiff(args) ==
    /\ Len(args) \in {2, 3}
    /\ FileTypeR(args[1])
    /\ FileTypeR(args[2])
    /\ Len(args) = 3 => IsInt(args[3])

DefaultTolerance == 1

Tolerance(args) == IF Len(args) = 3 THEN int(args[3]) ELSE DefaultTolerance

\* variant: the test file is sent as reference and the reference as test
Viewer_Swapped(ref_file, test_file) ==
    <<Call("ipc_load", <<test_file>>, 1, "return"),
      Call("ipc_load", <<ref_file>>, 2, "return")>>

\* the viewer calls after a mismatch
Viewer(ref_file, test_file) ==
    <<Call("ipc_load", <<ref_file>>, 1, "return"),
      Call("ipc_load", <<test_file>>, 2, "return")>>

\* the engine call of cm_diff
DiffEngine(ref_file, test_file, tolerance, xo) ==
    Call("run_xor", <<ref_file, test_file>>, tolerance, xo)

\* cm_diff(args); xo is how run_xor ends
cm_diff(args, mods, cnt, xo) ==
    IF ~ParseDiff(args)
    THEN Res(mods, cnt, ParseError, <<>>, <<>>, NoValue)
    ELSE
    LET bad       == DiffLoop(<<args[1], args[2]>>)
        ref_file  == args[1]
        test_file == args[2]
        xor       == DiffEngine(ref_file, test_file, Tolerance(args), xo)
    IN  IF bad # Returned
        THEN Res(mods, cnt, bad, <<>>, <<>>, NoValue)
        ELSE IF xo = "return"
        THEN Res(mods, cnt, Returned, <<>>, <<xor>>, NoValue)
        ELSE IF xo = "GeometryDifference"
        THEN Res(mods, cnt, Returned,
                 <<Line("These layouts are different.", <<>>)>>,
                 <<xor>> \o Viewer(ref_file, test_file), NoValue)
        ELSE Res(mods, cnt, Exc(xo, "raised by run_xor", <<>>), <<>>, <<xor>>,
                 NoValue)

---------------------------------------------------------------------------
(* git-diff *)

TokPath == <<"p">>
TokHash == <<"h">>
TokMode == <<"1", "0", "0", "6", "4", "4">>

\* tokens git appends for a rename or copy pair
TokOther == <<"r", ".", "g", "d", "s">>
TokIndex == <<"9", "0">>

SimLists == {<<>>, <<TokIndex>>, <<TokOther, TokIndex>>}

GitFiles == {LyGds, LyGDS, LyOas, LyPcb, LyTxt, DevNull}

\* the seven fixed tokens of git's calling convention, then the similarity ones
GitArgs(f1, f2, sim) ==
    <<TokPath, f1, TokHash, TokMode, f2, TokHash, TokMode>> \o sim

\* git_parser: seven required positionals (lyfile1 and lyfile2 opened for
\* reading), the rest collected into similarity
ParseGit(args) ==
    /\ Len(args) >= 7
    /\ FileTypeR(args[2])
    /\ FileTypeR(args[5])

\* git_args after a successful parse; mode2 is <<token>>, with <<>> standing
\* for None, which a required positional never is
GitNamespace(args) ==
    [lyfile1 |-> args[2], lyfile2 |-> args[5], mode2 |-> <<args[7]>>,
     similarity |-> SubSeq(args, 8, Len(args))]

\* the extensions cm_gitdiff accepts
GitExts == {<<".", "g", "d", "s">>, <<".", "o", "a", "s">>}

\* the extension test of cm_gitdiff
GitAccepts(name) == lower(splitext(name)[2]) \in GitExts

\* the missing-side test of cm_gitdiff
IsMissing(git_args, name) == git_args.mode2 = <<>> \/ name = DevNull

\* variant: only a request with more than one similarity token is a rename
IsRename_TwoTokens(git_args) == Len(git_args.similarity) > 1

\* the rename/copy test of cm_gitdiff
IsRename(git_args) == Len(git_args.similarity) > 0

\* variant: the refusal prints every similarity token
SimilarityShown_All(similarity) == similarity

\* the similarity tokens the refusal prints
SimilarityShown(similarity) == Tail(similarity)

RefusalNotice ==
    Line("Refusing to process similar files without the same name", <<>>)

\* print("\n".join(tokens))
Joined(tokens) == Line("join", tokens)

NotOnBoth(git_args) ==
    Line("File does not exist on both commits",
         <<git_args.lyfile1, git_args.lyfile2>>)

RECURSIVE GitLoop(_, _)
\* the loop of cm_gitdiff over [lyfile1, lyfile2]: "missing" when it prints
\* and returns, the ValueError it raises, or Returned when it falls through
GitLoop(git_args, files) ==
    IF files = <<>> THEN Returned
    ELSE IF IsMissing(git_args, Head(files)) THEN Exc("missing", "", <<>>)
    ELSE IF ~GitAccepts(Head(files)) THEN Unrecognized(Head(files))
    ELSE GitLoop(git_args, Tail(files))

\* cm_gitdiff(args); xo is how run_xor ends
cm_gitdiff(args, mods, cnt, xo) ==
    IF ~ParseGit(args)
    THEN Res(mods, cnt, ParseError, <<>>, <<>>, NoValue)
    ELSE
    LET git_args  == GitNamespace(args)
        loop      == GitLoop(git_args, <<git_args.lyfile1, git_args.lyfile2>>)
        ref_file  == git_args.lyfile1
        test_file == git_args.lyfile2
        xor       == Call("run_xor", <<ref_file, test_file>>, 1, xo)
    IN  IF IsRename(git_args)
        THEN Res(mods, cnt, Returned,
                 <<RefusalNotice, Joined(SimilarityShown(git_args.similarity))>>,
                 <<>>, NoValue)
        ELSE IF loop.type = "missing"
        THEN Res(mods, cnt, Returned, <<NotOnBoth(git_args)>>, <<>>, NoValue)
        ELSE IF loop # Returned
        THEN Res(mods, cnt, loop, <<>>, <<>>, NoValue)
        ELSE IF xo = "return"
        THEN Res(mods, cnt, Returned, <<>>, <<xor>>, NoValue)
        ELSE IF xo = "GeometryDifference"
        THEN Res(mods, cnt, Returned,
                 <<Line("Layouts differ:", <<>>), Line("  ", <<test_file>>),
                   Line("  ", <<ref_file>>)>>,
                 <<xor>> \o Viewer(ref_file, test_file), NoValue)
        ELSE Res(mods, cnt, Exc(xo, "raised by run_xor", <<>>), <<>>, <<xor>>,
                 NoValue)

---------------------------------------------------------------------------
(* git-config *)

Scopes == {"local", "global"}

TokLocal == <<"-", "-", "l", "o", "c", "a", "l">>

ConfigArgs == {<<>>, <<TokLocal>>, <<Foo>>}

\* gitconfig_parser: the --local flag and nothing else
ParseConfig(args) == args \in {<<>>, <<TokLocal>>}

\* the file types cm_gitconfig registers, in the order written
FileTypes ==
    << <<"g", "d", "s">>, <<"G", "D", "S">>, <<"o", "a", "s">>,
       <<"O", "A", "S">>, <<"k", "i", "c", "a", "d", "_", "p", "c", "b">> >>

\* "*.{}  diff=lytest\n".format(filetype)
AttrLine(filetype) == [pattern |-> <<"*", ".">> \o filetype, attr |-> "diff=lytest"]

\* the lines one run writes
Written == [i \in 1..Len(FileTypes) |-> AttrLine(FileTypes[i])]

\* variant: lines the file already holds are not written again
Appended_Dedup(content) ==
    content \o SelectSeq(Written,
                         LAMBDA l : ~\E i \in 1..Len(content) : content[i] = l)

\* open(attr_file, "a+") and the writes: the content after them
Appended(content) == content \o Written

\* git config [--global] key value
SetKey(cfg, key, val) == (key :> val) @@ cfg

\* cm_gitconfig(args) on configuration cfg and attributes file content attrs
\* of the chosen scope; c1, c2 say whether the two check_call succeed and op
\* whether the attributes file can be opened
cm_gitconfig(args, cfg, attrs, c1, c2, op) ==
    LET cfg1 == SetKey(cfg, "diff.lytest.command", "lytest git-diff")
        cfg2 == SetKey(cfg1, "diff.lytest.binary", "true")
    IN  IF ~c1
        THEN [cfg |-> cfg, attrs |-> attrs,
              outcome |-> Exc("CalledProcessError", "diff.lytest.command", <<>>)]
        ELSE IF ~c2
        THEN [cfg |-> cfg1, attrs |-> attrs,
              outcome |-> Exc("CalledProcessError", "diff.lytest.binary", <<>>)]
        ELSE IF ~op
        THEN [cfg |-> cfg2, attrs |-> attrs,
              outcome |-> Exc("OSError", "open", <<>>)]
        ELSE [cfg |-> cfg2, attrs |-> Appended(attrs), outcome |-> Returned]

\* the scope --local selects
ScopeOf(args) == IF args = <<TokLocal>> THEN "local" ELSE "global"

---------------------------------------------------------------------------
(* The state machine *)

RECURSIVE Sum(_, _)
Sum(f, S) ==
    IF S = {} THEN 0
    ELSE LET x == CHOOSE y \in S : TRUE IN f[x] + Sum(f, S \ {x})

\* a line already in the user's global attributes file
OtherLine == [pattern |-> <<"*", ".", "t", "x", "t">>, attr |-> "text"]

InitAttributes == [s \in Scopes |-> IF s = "global" THEN <<OtherLine>> ELSE <<>>]

Init ==
    /\ _loaded_modules = <<>>
    /\ execCount = [f \in TestFiles |-> 0]
    /\ gitconfig = [s \in Scopes |-> <<>>]
    /\ attributes = InitAttributes
    /\ runs = [s \in Scopes |-> 0]
    /\ pc = "ready"
    /\ cmd = "none"
    /\ request = <<>>
    /\ outcome = NoOutcome
    /\ output = <<>>
    /\ calls = <<>>
    /\ value = NoValue

\* a handler that leaves the git state alone ran on args with result r
Handled(c, args, r) ==
    /\ pc = "ready"
    /\ Sum(r.cnt, TestFiles) <= MaxExec
    /\ pc' = "done"
    /\ cmd' = c
    /\ request' = args
    /\ _loaded_modules' = r.mods
    /\ execCount' = r.cnt
    /\ outcome' = r.outcome
    /\ output' = r.output
    /\ calls' = r.calls
    /\ value' = r.value
    /\ UNCHANGED <<gitconfig, attributes, runs>>

Store ==
    /\ pc = "ready"
    /\ \E f \in TestFiles, n \in TestNames, eo \in ExecOutcomes,
       so \in {"return", "raise"} :
        \E r \in {cm_store_ref(<<f, n>>, _loaded_modules, execCount, eo, so)} :
            Handled("store", <<f, n>>, r)

Run ==
    /\ pc = "ready"
    /\ \E f \in TestFiles, n \in TestNames, eo \in ExecOutcomes,
       co \in {"return", "raise"} :
        \E r \in {cm_xor_test(<<f, n>>, _loaded_modules, execCount, eo, co)} :
            Handled("run", <<f, n>>, r)

Load ==
    /\ pc = "ready"
    /\ \E f \in TestFiles \cap Existing, n \in TestNames, eo \in ExecOutcomes :
        \E r \in {LoaderCall(<<f, n>>, _loaded_modules, execCount, eo)} :
            Handled("load", <<f, n>>, r)

DiffFiles == {LyGds, LyGDS, LyPcb, LyTxt, LyGone}

\* how run_xor can end in a handler that calls it; nothing is drawn for a
\* handler that ends before the call
Engine(r) ==
    IF \E i \in 1..Len(r.calls) : r.calls[i].fn = "run_xor"
    THEN XorOutcomes ELSE {"return"}

Diff ==
    /\ pc = "ready"
    /\ \E f1 \in DiffFiles, f2 \in DiffFiles, t \in DiffTolerances :
        LET args == <<f1, f2>> \o t
        IN  \E r0 \in {cm_diff(args, _loaded_modules, execCount, "return")} :
            \E xo \in Engine(r0) :
            \E r \in {IF xo = "return" THEN r0
                      ELSE cm_diff(args, _loaded_modules, execCount, xo)} :
                Handled("diff", args, r)

\* git calls the driver with the seven tokens, and more for a rename; a call
\* with six tokens is a usage error
GitDiff ==
    /\ pc = "ready"
    /\ \E f1 \in GitFiles, f2 \in GitFiles, sim \in SimLists :
        \E args \in {GitArgs(f1, f2, sim)}
                    \cup (IF f1 = f2 /\ sim = <<>>
                          THEN {SubSeq(GitArgs(f1, f2, sim), 1, 6)} ELSE {}) :
            \E r0 \in {cm_gitdiff(args, _loaded_modules, execCount, "return")} :
            \E xo \in Engine(r0) :
            \E r \in {IF xo = "return" THEN r0
                      ELSE cm_gitdiff(args, _loaded_modules, execCount, xo)} :
                Handled("git-diff", args, r)

GitConfig ==
    /\ pc = "ready"
    /\ \E args \in ConfigArgs, c1 \in BOOLEAN, c2 \in BOOLEAN, op \in BOOLEAN :
        \E s \in {ScopeOf(args)}, parsed \in {ParseConfig(args)} :
        \E r \in {cm_gitconfig(args, gitconfig[s], attributes[s], c1, c2, op)} :
            /\ pc = "ready"
            /\ Sum(runs, Scopes) < MaxRuns
            /\ pc' = "done"
            /\ cmd' = "git-config"
            /\ request' = args
            /\ outcome' = IF parsed THEN r.outcome ELSE ParseError
            /\ gitconfig' = IF parsed THEN [gitconfig EXCEPT ![s] = r.cfg]
                            ELSE gitconfig
            /\ attributes' = IF parsed THEN [attributes EXCEPT ![s] = r.attrs]
                             ELSE attributes
            /\ runs' = IF parsed /\ r.outcome = Returned
                       THEN [runs EXCEPT ![s] = @ + 1] ELSE runs
            /\ output' = <<>>
            /\ calls' = <<>>
            /\ value' = NoValue
            /\ UNCHANGED <<_loaded_modules, execCount>>

\* the handler's caller goes on in the same process
Return ==
    /\ pc = "done"
    /\ pc' = "ready"
    /\ cmd' = "none"
    /\ request' = <<>>
    /\ outcome' = NoOutcome
    /\ output' = <<>>
    /\ calls' = <<>>
    /\ value' = NoValue
    /\ UNCHANGED <<_loaded_modules, execCount, gitconfig, attributes, runs>>

\* the process ends and a new one starts: the module cache is per process,
\* the git configuration and the attributes files stay
Exit ==
    /\ pc = "done"
    /\ pc' = "ready"
    /\ cmd' = "none"
    /\ request' = <<>>
    /\ outcome' = NoOutcome
    /\ output' = <<>>
    /\ calls' = <<>>
    /\ value' = NoValue
    /\ _loaded_modules' = <<>>
    /\ execCount' = [f \in TestFiles |-> 0]
    /\ UNCHANGED <<gitconfig, attributes, runs>>

Next ==
    \/ Store
    \/ Run
    \/ Load
    \/ Diff
    \/ GitDiff
    \/ GitConfig
    \/ Return
    \/ Exit

Spec == Init /\ [][Next]_vars

---------------------------------------------------------------------------
(* Properties *)

Done(c) == pc = "done" /\ cmd = c

Called(fn) == \E i \in 1..Len(calls) : calls[i].fn = fn

Count(fn) == Cardinality({i \in 1..Len(calls) : calls[i].fn = fn})

\* a git-diff request that parsed, with its similarity tokens
GitRequest == Done("git-diff") /\ Len(request) >= 7

Similarity == SubSeq(request, 8, Len(request))

\* the tokens the handler printed after the refusal notice
Listed == IF Len(output) >= 2 THEN output[2].args ELSE <<>>

InSeq(x, q) == \E i \in 1..Len(q) : q[i] = x

\* C1: a git-diff request with a non-empty similarity list is refused: the
\* refusal notice is printed and the handler returns normally, run_xor and
\* ipc_load are not called and no unrecognized-format error is raised,
\* whatever the extensions of the two files
C1_RenameRefused ==
    (GitRequest /\ Len(Similarity) > 0) =>
        /\ outcome = Returned
        /\ Len(output) >= 1
        /\ output[1].msg = "Refusing to process similar files without the same name"
        /\ ~Called("run_xor")
        /\ ~Called("ipc_load")

\* C1 witness: a rename pair of files with an extension the driver does not
\* accept was handled
C1_Witness ==
    /\ GitRequest
    /\ Len(Similarity) = 1
    /\ request[2] = LyTxt
    /\ request[5] = LyPcb
    /\ outcome = Returned

\* C2: a git-diff request without similarity tokens in which the second mode
\* token is absent or either file is the null device is refused with the
\* message naming both files, whatever the extension of the other file
C2_MissingSideRefused ==
    (/\ GitRequest
     /\ Len(Similarity) = 0
     /\ (request[2] = DevNull \/ request[5] = DevNull)) =>
        /\ outcome = Returned
        /\ Len(output) = 1
        /\ output[1].msg = "File does not exist on both commits"
        /\ output[1].args = <<request[2], request[5]>>
        /\ calls = <<>>

\* C3 as stated: the refusal of a rename pair lists every similarity token,
\* the first one included
C3_AllTokensListed ==
    (GitRequest /\ Len(Similarity) > 0) =>
        /\ Len(output) >= 1
        /\ output[1].msg = "Refusing to process similar files without the same name"
        /\ \A i \in 1..Len(Similarity) : InSeq(Similarity[i], Listed)

\* C3 amended: the refusal of a rename pair prints the refusal notice and
\* then the similarity tokens after the first one, in order; the first token
\* is not listed, and with exactly one token none is
C3_TokensAfterFirstListed ==
    (GitRequest /\ Len(Similarity) > 0) =>
        /\ Len(output) = 2
        /\ output[1].msg = "Refusing to process similar files without the same name"
        /\ Len(Listed) = Len(Similarity) - 1
        /\ \A i \in 2..Len(Similarity) : Listed[i - 1] = Similarity[i]

\* C3 witness: a rename pair with two similarity tokens was refused and the
\* second token was listed
C3_Witness ==
    /\ GitRequest
    /\ Similarity = <<TokOther, TokIndex>>
    /\ Listed = <<TokIndex>>

\* a run request that parsed
RunRequest == Done("run") /\ Len(request) = 2 /\ request[1] \in Existing

\* the module object the run handler looked its names up on, when the file
\* was loaded (by this call or an earlier one)
RunLoaded == RunRequest /\ modulename(request[1]) \in DOMAIN _loaded_modules

RunModule == _loaded_modules[modulename(request[1])]

RunDefines(name) == name \in FileDefs(RunModule.file)

\* exactly one test function was called, and it is attribute name of the
\* module the handler resolved it on
InvokedOnly(name) ==
    /\ Count("call") = 1
    /\ \A i \in 1..Len(calls) :
        calls[i].fn = "call" =>
            calls[i].files = <<RunModule.file, name>> /\ calls[i].num = RunModule.run
    /\ outcome.type \in {"return", "TestError"}
    /\ outcome = Returned <=> output = <<Line("Success", <<>>)>>

NothingInvoked ==
    /\ ~Called("call")
    /\ ~Called("run_xor")
    /\ ~Called("ipc_load")
    /\ output = <<>>

ShapedName(n) ==
    \/ (Len(n) >= 5 /\ SubSeq(n, 1, 5) = <<"t", "e", "s", "t", "_">>)
    \/ (Len(n) >= 5 /\ SubSeq(n, Len(n) - 4, Len(n)) = <<"_", "t", "e", "s", "t">>)

\* C4: run with a name foo that is not test-shaped invokes test_foo when the
\* module defines it (also when foo_test exists), else foo_test when the
\* module defines that, else fails with the "no pytest-able version" error
\* and invokes nothing; a test-shaped name is looked up as given, with no
\* fallback; a resolved function is invoked exactly once
C4_RunResolution ==
    RunLoaded =>
        LET n  == request[2]
            tn == <<"t", "e", "s", "t", "_">> \o n
            nt == n \o <<"_", "t", "e", "s", "t">>
        IN  IF ShapedName(n)
            THEN IF RunDefines(n)
                 THEN InvokedOnly(n)
                 ELSE /\ outcome.type = "AttributeError"
                      /\ outcome # NoPytestable
                      /\ NothingInvoked
            ELSE IF RunDefines(tn) THEN InvokedOnly(tn)
            ELSE IF RunDefines(nt) THEN InvokedOnly(nt)
            ELSE outcome = NoPytestable /\ NothingInvoked

\* C4 witness: run foo on a module defining both test_foo and foo_test
\* invoked test_foo and printed Success
C4_Witness ==
    /\ RunLoaded
    /\ request = <<TestA, Foo>>
    /\ RunModule.file = TestA
    /\ Count("call") = 1
    /\ outcome = Returned

\* C5 as stated: in one process a given file is executed at most once
C5_ExecutedAtMostOnce == \A f \in TestFiles : execCount[f] <= 1

\* a loader call for file f returned an attribute in the next state
Looked(f) == pc' = "done" /\ cmd' = "load" /\ request'[1] = f /\ value' # NoValue

\* C5 amended: in one process, once an execution of a file has completed
\* without raising and its module is stored in _loaded_modules, no later call
\* executes a file of that module name again, the stored module is never
\* replaced, and every later load of that file returns an attribute of that
\* stored module (an execution that raised stored nothing, so the file can be
\* executed again)
C5_CachedNeverReexecuted ==
    [][Exit \/
       \A f \in TestFiles :
          LET m == modulename(f)
          IN  m \in DOMAIN _loaded_modules =>
                /\ execCount'[f] = execCount[f]
                /\ m \in DOMAIN _loaded_modules'
                /\ _loaded_modules'[m] = _loaded_modules[m]
                /\ ~\E i \in 1..Len(calls') :
                      calls'[i].fn = "exec_module" /\ modulename(calls'[i].files[1]) = m
                /\ Looked(f) =>
                      /\ value'.file = _loaded_modules[m].file
                      /\ value'.run = _loaded_modules[m].run]_vars

\* C5 witness: a second load of a file whose module is stored returned an
\* attribute of the one execution, without executing anything
C5_Witness ==
    /\ Done("load")
    /\ request[1] = TestA
    /\ value.file = TestA
    /\ value.run = 1
    /\ execCount[TestA] = 1
    /\ calls = <<>>

\* a diff request that parsed
DiffRequest == Done("diff") /\ outcome # ParseError

\* the extension of a name with a one-letter stem, as written
ExtOf(name) == SubSeq(name, 2, Len(name))

\* .gds, .oas or .kicad_pcb in any letter case
DiffRecognized(name) ==
    ExtOf(name) \in {<<".", "g", "d", "s">>, <<".", "G", "D", "S">>,
                     <<".", "o", "a", "s">>, <<".", "O", "A", "S">>,
                     <<".", "k", "i", "c", "a", "d", "_", "p", "c", "b">>}

\* the tolerance the request asks for: 1 when it names none, and twelve for
\* the token "12", the one tolerance token that parses
Asked == IF Len(request) = 2 THEN 1 ELSE 12

\* C6: diff validates both extensions, case-insensitively against .gds, .oas
\* and .kicad_pcb, before the engine runs: an unrecognized one raises the
\* ValueError naming that file and run_xor and ipc_load are not called; with
\* both recognized run_xor is called exactly once with the two names, the
\* parsed tolerance (1 by default) and verbose=False
C6_DiffValidatesFirst ==
    DiffRequest =>
        IF ~DiffRecognized(request[1])
        THEN /\ outcome = Exc("ValueError", "Unrecognized layout format", <<request[1]>>)
             /\ calls = <<>>
        ELSE IF ~DiffRecognized(request[2])
        THEN /\ outcome = Exc("ValueError", "Unrecognized layout format", <<request[2]>>)
             /\ calls = <<>>
        ELSE /\ outcome.type # "ValueError"
             /\ Count("run_xor") = 1
             /\ calls[1].fn = "run_xor"
             /\ calls[1].files = <<request[1], request[2]>>
             /\ calls[1].num = Asked
             /\ calls[1].verbose = FALSE

\* C6 witness: diff of an upper-case .GDS file and a .kicad_pcb file with
\* tolerance 12 reached the engine
C6_Witness ==
    /\ DiffRequest
    /\ request = <<LyGDS, LyPcb, <<"1", "2">> >>
    /\ Called("run_xor")

\* C7: diff of two valid files: when run_xor signals GeometryDifference the
\* handler prints "These layouts are different.", calls ipc_load with lyfile1
\* and mode 1 and then with lyfile2 and mode 2, and returns normally; when
\* run_xor returns normally nothing is printed and ipc_load is not called
C7_DiffMismatch ==
    (DiffRequest /\ Called("run_xor")) =>
        /\ calls[1].result = "GeometryDifference" =>
              /\ outcome = Returned
              /\ output = <<Line("These layouts are different.", <<>>)>>
              /\ Len(calls) = 3
              /\ calls[2].fn = "ipc_load"
              /\ calls[2].files = <<request[1]>>
              /\ calls[2].num = 1
              /\ calls[3].fn = "ipc_load"
              /\ calls[3].files = <<request[2]>>
              /\ calls[3].num = 2
        /\ calls[1].result = "return" =>
              /\ outcome = Returned
              /\ output = <<>>
              /\ Len(calls) = 1

\* C7 witness: a mismatch of two different valid files was handled
C7_Witness ==
    /\ DiffRequest
    /\ request = <<LyGds, LyGDS>>
    /\ calls[1].result = "GeometryDifference"
    /\ Len(calls) = 3

\* the five lines one run appends, as the attributes file shows them
FiveLines ==
    << [pattern |-> <<"*", ".", "g", "d", "s">>, attr |-> "diff=lytest"],
       [pattern |-> <<"*", ".", "G", "D", "S">>, attr |-> "diff=lytest"],
       [pattern |-> <<"*", ".", "o", "a", "s">>, attr |-> "diff=lytest"],
       [pattern |-> <<"*", ".", "O", "A", "S">>, attr |-> "diff=lytest"],
       [pattern |-> <<"*", ".", "k", "i", "c", "a", "d", "_", "p", "c", "b">>,
        attr |-> "diff=lytest"] >>

RECURSIVE Repeated(_, _)
Repeated(q, n) == IF n = 0 THEN <<>> ELSE q \o Repeated(q, n - 1)

\* C8: after n runs of git-config that completed normally in a scope, the
\* attributes file of that scope holds its original content followed by n
\* copies of the five lines (nothing removed, rewritten or deduplicated), and
\* from the first such run on the two configuration keys hold the same values
C8_AppendOnly ==
    \A s \in Scopes :
        /\ attributes[s] = InitAttributes[s] \o Repeated(FiveLines, runs[s])
        /\ runs[s] >= 1 =>
              /\ DOMAIN gitconfig[s] = {"diff.lytest.command", "diff.lytest.binary"}
              /\ gitconfig[s]["diff.lytest.command"] = "lytest git-diff"
              /\ gitconfig[s]["diff.lytest.binary"] = "true"

\* C8 witness: git-config ran twice in the global scope, whose attributes
\* file was not empty, and the file holds ten more lines
C8_Witness ==
    /\ Done("git-config")
    /\ runs["global"] = 2
    /\ Len(attributes["global"]) = Len(InitAttributes["global"]) + 10

\* an execution of the file raised
ExecRaised ==
    \E i \in 1..Len(calls) : calls[i].fn = "exec_module" /\ calls[i].result # "ok"

Registered(name) ==
    \E s \in Scopes :
        \E i \in 1..Len(attributes[s]) :
            /\ attributes[s][i].attr = "diff=lytest"
            /\ endswith(basename(name), Tail(attributes[s][i].pattern))

\* C10: every extension git-config registers for the driver is accepted by
\* git-diff: a request without similarity tokens for two existing files of
\* registered extensions reaches run_xor and raises no unrecognized-format
\* error
C10_RegisteredAccepted ==
    (/\ GitRequest
     /\ Len(Similarity) = 0
     /\ request[2] # DevNull
     /\ request[5] # DevNull
     /\ Registered(request[2])
     /\ Registered(request[5])) =>
        /\ outcome.type # "ValueError"
        /\ Called("run_xor")

====
